---- MODULE Spec2Model ----
(***************************************************************************)
(* Argument-tree parsers of cmake_format for add_executable() and          *)
(* install(): the two dispatchers, the hand-written loop of                *)
(* parse_add_executable_standard and the recursive loop of                 *)
(* parse_install_targets, one action per loop iteration.                   *)
(*                                                                         *)
(* cmake_format.parser and cmake_format.lexer are imported by the two      *)
(* grammar modules but are not among the sources; their helpers            *)
(* (should_break, parse_positionals, parse_kwarg, parse_standard, ...)     *)
(* are modelled from the design document (sections 3, 4.1-4.3).            *)
(***************************************************************************)
EXTENDS Integers, Sequences, FiniteSets, TLC

\* Longest token stream handed to a parser (all shorter streams included).
MaxLen == 3

None == "None"

(***************************************************************************)
(* Tokens (cmake_format.lexer)                                             *)
(***************************************************************************)
Token(type, spelling, loc) ==
  [kind |-> "TOKEN", type |-> type, spelling |-> spelling, loc |-> loc]

\* "No token": what next(iterator, None) yields at the end of the stream.
NoToken == [kind |-> "None", type |-> "None", spelling |-> "", loc |-> 0]

WHITESPACE_TOKENS == {"WHITESPACE", "NEWLINE"}

COMMENT_TOKENS == {"COMMENT", "BRACKET_COMMENT"}

\* The token kinds iter_semantic_tokens() skips.
SKIP_TOKENS == WHITESPACE_TOKENS \cup COMMENT_TOKENS

\* The cased characters of a spelling, lower case and upper case in step.
LOWERCASE == "abcdefghijklmnopqrstuvwxyz"

UPPERCASE == "ABCDEFGHIJKLMNOPQRSTUVWXYZ"

\* The upper-case letter of each lower-case letter.
UPPER_OF ==
  LET at(c) == CHOOSE i \in 1..Len(LOWERCASE) : SubSeq(LOWERCASE, i, i) = c
  IN  [c \in {SubSeq(LOWERCASE, i, i) : i \in 1..Len(LOWERCASE)} |->
         SubSeq(UPPERCASE, at(c), at(c))]

\* The upper-case letter of a lower-case letter; any other character as it is.
upper_char(c) == IF c \in DOMAIN UPPER_OF THEN UPPER_OF[c] ELSE c

\* str.upper(): character by character.
RECURSIVE upper(_)
upper(spelling) ==
  IF spelling = "" THEN ""
  ELSE upper_char(SubSeq(spelling, 1, 1)) \o upper(Tail(spelling))

\* '"${" in spelling': the two characters occur side by side.
has_deref(spelling) ==
  \E i \in 1..(Len(spelling) - 1) : SubSeq(spelling, i, i + 1) = "${"

\* The tag a comment carries ("# unsortable" -> "unsortable"), else None.
get_tag(token) ==
  IF token.type \notin COMMENT_TOKENS THEN None
  ELSE CASE token.spelling = "# unsortable" -> "unsortable"
         [] token.spelling = "# unsort" -> "unsort"
         [] token.spelling = "# sortable" -> "sortable"
         [] token.spelling = "# sort" -> "sort"
         [] OTHER -> None

\* Uppercase spelling of a word, None for every other token kind.
get_normalized_kwarg(token) ==
  IF token.type = "WORD" THEN upper(token.spelling) ELSE None

(***************************************************************************)
(* Breakers and the breakstack                                             *)
(***************************************************************************)
KwargBreaker(kwargs) == [kwargs |-> kwargs]

\* KwargBreaker.__call__: a token holding a variable dereference never matches.
breaker_matches(breaker, token) ==
  /\ ~has_deref(token.spelling)
  /\ get_normalized_kwarg(token) \in breaker.kwargs

\* True iff a breaker of the stack matches; the closing parenthesis always breaks.
should_break(token, breakstack) ==
  \/ token.type = "RIGHT_PAREN"
  \/ \E i \in DOMAIN breakstack : breaker_matches(breakstack[i], token)

(***************************************************************************)
(* Tree nodes                                                              *)
(***************************************************************************)
TreeNode(node_type, children, sortable) ==
  [kind |-> node_type, children |-> children, sortable |-> sortable]

IsToken(x) == x.kind = "TOKEN"

\* The tokens reachable from a child (token or node), depth first, in child order.
RECURSIVE flatten(_)
flatten(x) ==
  IF IsToken(x) THEN <<x>>
  ELSE IF x.children = <<>> THEN <<>>
  ELSE LET n == Len(x.children)
       IN flatten([x EXCEPT !.children = SubSeq(x.children, 1, n - 1)])
            \o flatten(x.children[n])

\* All nodes (not tokens) of a tree, the root included.
RECURSIVE nodes_of(_)
nodes_of(x) ==
  IF IsToken(x) THEN {}
  ELSE {x} \cup UNION {nodes_of(x.children[i]) : i \in DOMAIN x.children}

(***************************************************************************)
(* Generic engine (cmake_format.parser)                                    *)
(***************************************************************************)
\* Number of leading whitespace/newline tokens.
RECURSIVE leading_whitespace(_)
leading_whitespace(tokens) ==
  IF tokens # <<>> /\ Head(tokens).type \in WHITESPACE_TOKENS
  THEN 1 + leading_whitespace(Tail(tokens))
  ELSE 0

drop(tokens, n) == SubSeq(tokens, n + 1, Len(tokens))

take(tokens, n) == SubSeq(tokens, 1, n)

\* A parser at work: the stream left, the children built so far, the number
\* of positionals consumed, and the exception raised (None if none).
Cursor(tokens, children) ==
  [tokens |-> tokens, children |-> children, nconsumed |-> 0, raised |-> None]

split_at(tokens, n) == Cursor(drop(tokens, n), take(tokens, n))

\* "while tokens and tokens[0].type in WHITESPACE_TOKENS: children.append(pop)"
strip_whitespace(tokens) == split_at(tokens, leading_whitespace(tokens))

\* A comment, or one WHITESPACE token followed by a comment, on the same line.
next_is_trailing_comment(tokens) ==
  \/ tokens # <<>> /\ tokens[1].type \in COMMENT_TOKENS
  \/ /\ Len(tokens) >= 2
     /\ tokens[1].type = "WHITESPACE"
     /\ tokens[2].type \in COMMENT_TOKENS

trailing_comment_at(parent, tokens, n) ==
  [node |-> [parent EXCEPT !.children =
               @ \o take(tokens, n - 1)
                 \o <<TreeNode("COMMENT", <<tokens[n]>>, FALSE)>>],
   tokens |-> drop(tokens, n)]

\* Attach the comment trailing an ARGUMENT/FLAG node to that node.
consume_trailing_comment(parent, tokens) ==
  IF ~next_is_trailing_comment(tokens) THEN [node |-> parent, tokens |-> tokens]
  ELSE trailing_comment_at(parent, tokens,
                           IF tokens[1].type = "WHITESPACE" THEN 2 ELSE 1)

\* True iff nothing but comments and whitespace precedes the next breaking token.
RECURSIVE only_comments_and_whitespace_remain(_, _)
only_comments_and_whitespace_remain(tokens, breakstack) ==
  IF tokens = <<>> THEN TRUE
  ELSE IF Head(tokens).type \in SKIP_TOKENS
  THEN only_comments_and_whitespace_remain(Tail(tokens), breakstack)
  ELSE should_break(Head(tokens), breakstack)

\* The semantic tokens of a stream (iter_semantic_tokens).
iter_semantic_tokens(tokens) ==
  SelectSeq(tokens, LAMBDA t : t.type \notin SKIP_TOKENS)

nth_or_none(sem, n) == IF Len(sem) < n THEN NoToken ELSE sem[n]

get_first_semantic_token(tokens) == nth_or_none(iter_semantic_tokens(tokens), 1)

\* Arity specifications.
Exactly(n) == [exact |-> TRUE, n |-> n]

OneOrMore == [exact |-> FALSE, n |-> 1]

ZeroOrMore == [exact |-> FALSE, n |-> 0]

pargs_are_full(npargs, nconsumed) == npargs.exact /\ nconsumed >= npargs.n

PositionalParser(npargs, flags) ==
  [parser |-> "PositionalParser", npargs |-> npargs, flags |-> flags]

\* The sub-parser of PATTERN and REGEX (install(DIRECTORY)).
PatternParser == [parser |-> "parse_pattern", npargs |-> OneOrMore, flags |-> {}]

\* A call evaluates its argument once and hands the value to the body.
Bind(value, Body(_)) == CHOOSE r \in {Body(v) : v \in {value}} : TRUE

\* children.append(tokens.pop(0)) for whitespace.
take_whitespace(cur) ==
  [cur EXCEPT !.tokens = Tail(@), !.children = Append(@, cur.tokens[1])]

\* A COMMENT node for a comment that trails no argument.
take_comment(cur) ==
  [cur EXCEPT !.tokens = Tail(@),
              !.children = Append(@, TreeNode("COMMENT", <<cur.tokens[1]>>, FALSE))]

\* An ARGUMENT/FLAG node with its trailing comment joins the group.
take_argument(cur, r) ==
  [cur EXCEPT !.tokens = r.tokens, !.children = Append(@, r.node),
              !.nconsumed = @ + 1]

\* One iteration of the loop of parse_positionals that consumes a token.
positionals_step(cur, flags) ==
  IF cur.tokens[1].type \in WHITESPACE_TOKENS THEN take_whitespace(cur)
  ELSE IF cur.tokens[1].type \in COMMENT_TOKENS THEN take_comment(cur)
  ELSE take_argument(
         cur,
         consume_trailing_comment(
           TreeNode(IF get_normalized_kwarg(cur.tokens[1]) \in flags
                    THEN "FLAG" ELSE "ARGUMENT",
                    <<cur.tokens[1]>>, FALSE),
           Tail(cur.tokens)))

RECURSIVE positionals_loop(_, _, _, _)
positionals_loop(cur, npargs, flags, breakstack) ==
  IF \/ cur.tokens = <<>>
     \/ pargs_are_full(npargs, cur.nconsumed)
     \/ should_break(cur.tokens[1], breakstack)
  THEN cur
  ELSE Bind(positionals_step(cur, flags),
            LAMBDA next : positionals_loop(next, npargs, flags, breakstack))

\* What a parser returns: its tree, with the stream it left and the exception.
Parsed(node_type, cur) ==
  [tree |-> TreeNode(node_type, cur.children, FALSE),
   tokens |-> cur.tokens, raised |-> cur.raised]

\* A positional group: leading whitespace, then arguments until the arity is
\* reached, a breaker matches or the stream ends.
parse_positionals(tokens, npargs, flags, breakstack) ==
  Bind(positionals_loop(strip_whitespace(tokens), npargs, flags, breakstack),
       LAMBDA cur : Parsed("PARGGROUP", cur))

keyword_first(cur, keyword) ==
  [cur EXCEPT !.children = <<TreeNode("KEYWORD", <<keyword>>, FALSE)>> \o @]

\* parse_kwarg up to the call of the sub-parser: the KEYWORD node and the
\* whitespace after it.
parse_kwarg_open(tokens) ==
  keyword_first(strip_whitespace(Tail(tokens)), tokens[1])

\* parse_kwarg after the sub-parser returned: the payload is attached only if
\* it consumed something.
parse_kwarg_close(children, ntokens, sub) ==
  [tree |-> TreeNode("KWARGGROUP",
                     IF Len(sub.tokens) < ntokens
                     THEN Append(children, sub.tree) ELSE children,
                     FALSE),
   tokens |-> sub.tokens, raised |-> sub.raised]

RECURSIVE parse_standard(_, _, _, _, _)

PATTERN_KWARGS == [w \in {"PERMISSIONS"} |-> PositionalParser(OneOrMore, {})]

\* [PATTERN <pattern> | REGEX <regex>] [EXCLUDE] [PERMISSIONS <permissions>...]
parse_pattern(tokens, breakstack) ==
  parse_standard(tokens, OneOrMore, PATTERN_KWARGS, {"EXCLUDE"}, breakstack)

\* The call subparser(tokens, breakstack) of parse_kwarg.
call_subparser(subparser, tokens, breakstack) ==
  IF subparser.parser = "parse_pattern"
  THEN parse_pattern(tokens, breakstack)
  ELSE parse_positionals(tokens, subparser.npargs, subparser.flags, breakstack)

kwarg_payload(open, subparser, breakstack) ==
  Bind(call_subparser(subparser, open.tokens, breakstack),
       LAMBDA sub : parse_kwarg_close(open.children, Len(open.tokens), sub))

\* A keyword group: the keyword, then the payload its sub-parser accepts.
parse_kwarg(tokens, word, subparser, breakstack) ==
  Bind(parse_kwarg_open(tokens),
       LAMBDA open : kwarg_payload(open, subparser, breakstack))

\* "assert len(tokens) < ntokens; tree.children.append(subtree)"
take_subtree(cur, sub) ==
  IF sub.raised # None THEN [cur EXCEPT !.raised = sub.raised]
  ELSE IF Len(sub.tokens) < Len(cur.tokens)
  THEN [cur EXCEPT !.tokens = sub.tokens, !.children = Append(@, sub.tree)]
  ELSE [cur EXCEPT !.raised = "AssertionError"]

\* One iteration of the loop of parse_standard that consumes a token.
standard_step(cur, npargs, kwargs, flags, breakstack) ==
  IF cur.tokens[1].type \in WHITESPACE_TOKENS THEN take_whitespace(cur)
  ELSE IF cur.tokens[1].type \in COMMENT_TOKENS THEN take_comment(cur)
  ELSE Bind(
         IF get_normalized_kwarg(cur.tokens[1]) \in DOMAIN kwargs
         THEN parse_kwarg(cur.tokens, get_normalized_kwarg(cur.tokens[1]),
                          kwargs[get_normalized_kwarg(cur.tokens[1])],
                          Append(breakstack, KwargBreaker(DOMAIN kwargs \cup flags)))
         ELSE parse_positionals(cur.tokens, npargs, flags,
                                Append(breakstack, KwargBreaker(DOMAIN kwargs))),
         LAMBDA sub : take_subtree(cur, sub))

RECURSIVE standard_loop(_, _, _, _, _)
standard_loop(cur, npargs, kwargs, flags, breakstack) ==
  IF \/ cur.tokens = <<>>
     \/ cur.raised # None
     \/ should_break(cur.tokens[1], breakstack)
  THEN cur
  ELSE Bind(standard_step(cur, npargs, kwargs, flags, breakstack),
            LAMBDA next : standard_loop(next, npargs, kwargs, flags, breakstack))

\* The generic engine: whitespace and comments verbatim, keyword groups, and
\* positional groups of the given arity, until a breaker matches.
parse_standard(tokens, npargs, kwargs, flags, breakstack) ==
  Bind(standard_loop(strip_whitespace(tokens), npargs, kwargs, flags,
                     breakstack),
       LAMBDA cur : Parsed("ARGGROUP", cur))

NoKwargs == [w \in {} |-> PositionalParser(ZeroOrMore, {})]

(***************************************************************************)
(* add_executable (parse_funs/add_executable.py)                           *)
(***************************************************************************)
parse_add_executable_imported(tokens, breakstack) ==
  parse_standard(tokens, OneOrMore, NoKwargs, {"IMPORTED", "GLOBAL"}, breakstack)

\* Variant: ALIAS is not declared as a flag of the alias form.
parse_add_executable_alias_noflag(tokens, breakstack) ==
  parse_standard(tokens, Exactly(3), NoKwargs, {}, breakstack)

parse_add_executable_alias(tokens, breakstack) ==
  parse_standard(tokens, Exactly(3), NoKwargs, {"ALIAS"}, breakstack)

\* The permissive fallback of both dispatchers.
parse_fallback(tokens, breakstack) ==
  parse_standard(tokens, ZeroOrMore, NoKwargs, {}, breakstack)

parsing_name == 1

parsing_flags == 2

parsing_sources == 3

STANDARD_FLAGS == {"WIN32", "MACOSX_BUNDLE", "EXCLUDE_FROM_ALL"}

\* Lines 95-99: the value of the local 'sortable' after a comment token.
\* Variant: the second branch tests sort/sortable and turns sorting on.
comment_sortable_resort(state, sortable, token) ==
  IF state > parsing_name
  THEN IF get_tag(token) \in {"unsort", "unsortable"} THEN FALSE
       ELSE IF get_tag(token) \in {"sort", "sortable"} THEN TRUE
       ELSE sortable
  ELSE sortable

comment_sortable(state, sortable, token) ==
  IF state > parsing_name
  THEN IF get_tag(token) \in {"unsort", "unsortable"} THEN FALSE
       ELSE IF get_tag(token) \in {"unsort", "unsortable"} THEN TRUE
       ELSE sortable
  ELSE sortable

\* Variant: the discriminator is read from the first semantic token.
second_token_first(tokens) == nth_or_none(iter_semantic_tokens(tokens), 1)

\* The second semantic token of the stream, NoToken if there is none.
second_token(tokens) == nth_or_none(iter_semantic_tokens(tokens), 2)

\* Lines 168-171: parsemap, the parser each discriminator selects.
ADD_EXECUTABLE_FORMS ==
  [w \in {"ALIAS", "IMPORTED"} |->
     CASE w = "ALIAS" -> "parse_add_executable_alias"
       [] w = "IMPORTED" -> "parse_add_executable_imported"]

\* Line 173: parsemap[descriminator](tokens, breakstack).
parse_add_executable_form(parser, tokens, breakstack) ==
  CASE parser = "parse_add_executable_alias" ->
         parse_add_executable_alias(tokens, breakstack)
    [] parser = "parse_add_executable_imported" ->
         parse_add_executable_imported(tokens, breakstack)

\* Variant: the dispatcher always asks for sorting.
dispatch_sortable_always(token) == TRUE

\* Lines 179-181: sortability is not inferred behind a variable dereference.
dispatch_sortable(token) == ~has_deref(token.spelling)

(***************************************************************************)
(* install (parse_funs/install.py)                                         *)
(***************************************************************************)
\* Lines 31-37: the keywords of parse_install_targets_sub.
INSTALL_TARGETS_SUB_KWARGS ==
  [w \in {"DESTINATION", "PERMISSIONS", "CONFIGURATIONS", "COMPONENT",
          "NAMELINK_COMPONENT"} |->
     IF w \in {"PERMISSIONS", "CONFIGURATIONS"}
     THEN PositionalParser(OneOrMore, {})
     ELSE PositionalParser(Exactly(1), {})]

\* Lines 38-43.
INSTALL_TARGETS_SUB_FLAGS ==
  {"OPTIONAL", "EXCLUDE_FROM_ALL", "NAMELINK_ONLY", "NAMELINK_SKIP"}

\* Lines 22-44: the inner keywords of an install(TARGETS) command, the common
\* logic for ARCHIVE, LIBRARY, RUNTIME, etc.
parse_install_targets_sub(tokens, breakstack) ==
  parse_standard(tokens, ZeroOrMore, INSTALL_TARGETS_SUB_KWARGS,
                 INSTALL_TARGETS_SUB_FLAGS, breakstack)

INSTALL_TARGETS_KWARGS ==
  [w \in {"TARGETS", "EXPORT", "INCLUDES", "DESTINATION", "PERMISSIONS",
          "CONFIGURATIONS", "COMPONENT", "NAMELINK_COMPONENT"} |->
     CASE w = "TARGETS" -> PositionalParser(OneOrMore, {})
       [] w = "EXPORT" -> PositionalParser(Exactly(1), {})
       [] w = "INCLUDES" -> PositionalParser(OneOrMore, {"DESTINATION"})
       [] w = "DESTINATION" -> PositionalParser(Exactly(1), {})
       [] w = "PERMISSIONS" -> PositionalParser(OneOrMore, {})
       [] w = "CONFIGURATIONS" -> PositionalParser(OneOrMore, {})
       [] w = "COMPONENT" -> PositionalParser(Exactly(1), {})
       [] w = "NAMELINK_COMPONENT" -> PositionalParser(Exactly(1), {})]

INSTALL_TARGETS_FLAGS ==
  {"OPTIONAL", "EXCLUDE_FROM_ALL", "NAMELINK_ONLY", "NAMELINK_SKIP"}

designated_kwargs ==
  {"ARCHIVE", "LIBRARY", "RUNTIME", "OBJECTS", "FRAMEWORK", "BUNDLE",
   "PRIVATE_HEADER", "PUBLIC_HEADER", "RESOURCE"}

\* Variant: the sub-group parser stops at INCLUDES only.
subtree_breakstack_includes(breakstack) ==
  Append(breakstack, KwargBreaker({"INCLUDES"}))

\* Variant: the sub-group parser also stops at the shared keywords.
subtree_breakstack_shared(breakstack) ==
  Append(breakstack,
         KwargBreaker(DOMAIN INSTALL_TARGETS_KWARGS \cup designated_kwargs))

\* Lines 103-105.
subtree_breakstack(breakstack) ==
  Append(breakstack, KwargBreaker(designated_kwargs \cup {"INCLUDES"}))

\* Variant: the payload of a keyword does not stop at the flags.
kwarg_breakstack_noflags(breakstack) ==
  Append(breakstack,
         KwargBreaker(DOMAIN INSTALL_TARGETS_KWARGS \cup designated_kwargs))

\* Lines 108-110.
kwarg_breakstack(breakstack) ==
  Append(breakstack,
         KwargBreaker(DOMAIN INSTALL_TARGETS_KWARGS \cup designated_kwargs
                        \cup INSTALL_TARGETS_FLAGS))

\* Variant: bare positionals also stop at the flags.
positional_breakstack_flags(breakstack) ==
  Append(breakstack,
         KwargBreaker(DOMAIN INSTALL_TARGETS_KWARGS \cup designated_kwargs
                        \cup INSTALL_TARGETS_FLAGS))

\* Lines 113-115.
positional_breakstack(breakstack) ==
  Append(breakstack,
         KwargBreaker(DOMAIN INSTALL_TARGETS_KWARGS \cup designated_kwargs))

INSTALL_FILES_KWARGS ==
  [w \in {"FILES", "PROGRAMS", "TYPE", "DESTINATION", "PERMISSIONS",
          "CONFIGURATIONS", "COMPONENT", "RENAME"} |->
     IF w \in {"FILES", "PROGRAMS", "PERMISSIONS", "CONFIGURATIONS"}
     THEN PositionalParser(OneOrMore, {})
     ELSE PositionalParser(Exactly(1), {})]

parse_install_files(tokens, breakstack) ==
  parse_standard(tokens, ZeroOrMore, INSTALL_FILES_KWARGS,
                 {"OPTIONAL", "EXCLUDE_FROM_ALL"},
                 breakstack)

INSTALL_DIRECTORY_KWARGS ==
  [w \in {"DIRECTORY", "TYPE", "DESTINATION", "FILE_PERMISSIONS",
          "DIRECTORY_PERMISSIONS", "CONFIGURATIONS", "COMPONENT", "RENAME",
          "PATTERN", "REGEX"} |->
     IF w \in {"PATTERN", "REGEX"} THEN PatternParser
     ELSE IF w \in {"DIRECTORY", "FILE_PERMISSIONS", "DIRECTORY_PERMISSIONS",
                    "CONFIGURATIONS"}
     THEN PositionalParser(OneOrMore, {})
     ELSE PositionalParser(Exactly(1), {})]

parse_install_directory(tokens, breakstack) ==
  parse_standard(tokens, ZeroOrMore, INSTALL_DIRECTORY_KWARGS,
                 {"USER_SOURCE_PERMISSIONS", "OPTIONAL", "MESSAGE_NEVER", "FILES_MATCHING"},
                 breakstack)

INSTALL_SCRIPT_KWARGS ==
  [w \in {"SCRIPT", "CODE", "COMPONENT"} |-> PositionalParser(Exactly(1), {})]

parse_install_script(tokens, breakstack) ==
  parse_standard(tokens, ZeroOrMore, INSTALL_SCRIPT_KWARGS,
                 {"EXCLUDE_FROM_ALL"},
                 breakstack)

INSTALL_EXPORT_KWARGS ==
  [w \in {"EXPORT", "DESTINATION", "NAMESPACE", "FILE", "PERMISSIONS",
          "CONFIGURATIONS", "COMPONENT"} |->
     IF w \in {"PERMISSIONS", "CONFIGURATIONS"}
     THEN PositionalParser(OneOrMore, {})
     ELSE PositionalParser(Exactly(1), {})]

parse_install_export(tokens, breakstack) ==
  parse_standard(tokens, ZeroOrMore, INSTALL_EXPORT_KWARGS,
                 {"EXCLUDE_FROM_ALL"},
                 breakstack)

\* Variant: PROGRAMS is mapped to the directory parser.
INSTALL_PARSEMAP_programs ==
  [w \in {"TARGETS", "FILES", "PROGRAMS", "DIRECTORY", "SCRIPT", "CODE",
          "EXPORT"} |->
     CASE w = "TARGETS" -> "parse_install_targets"
       [] w = "FILES" -> "parse_install_files"
       [] w \in {"PROGRAMS", "DIRECTORY"} -> "parse_install_directory"
       [] w \in {"SCRIPT", "CODE"} -> "parse_install_script"
       [] w = "EXPORT" -> "parse_install_export"]

\* Lines 307-315: the form each discriminator selects.
INSTALL_PARSEMAP ==
  [w \in {"TARGETS", "FILES", "PROGRAMS", "DIRECTORY", "SCRIPT", "CODE",
          "EXPORT"} |->
     CASE w = "TARGETS" -> "parse_install_targets"
       [] w \in {"FILES", "PROGRAMS"} -> "parse_install_files"
       [] w = "DIRECTORY" -> "parse_install_directory"
       [] w \in {"SCRIPT", "CODE"} -> "parse_install_script"
       [] w = "EXPORT" -> "parse_install_export"]

\* Line 322 for the forms built on parse_standard.
parse_install_form(parser, tokens, breakstack) ==
  CASE parser = "parse_install_files" -> parse_install_files(tokens, breakstack)
    [] parser = "parse_install_directory" ->
         parse_install_directory(tokens, breakstack)
    [] parser = "parse_install_script" -> parse_install_script(tokens, breakstack)
    [] parser = "parse_install_export" -> parse_install_export(tokens, breakstack)

\* Token.location is a data attribute (line, column, offset) of the token:
\* the call tokens[0].location() of line 318 does not return.
location_is_callable == FALSE

\* One activation of parse_install_targets.
Frame(children, breakstack) ==
  [children |-> children, breakstack |-> breakstack,
   kwarg |-> <<>>, ntokens |-> 0, kwarg_ntokens |-> 0]

(***************************************************************************)
(* State                                                                   *)
(***************************************************************************)
VARIABLES
  entry,         \* the function the caller invoked
  input,         \* the token stream as the caller passed it
  breakstack,    \* the breakstack the caller passed
  tokens,        \* the remaining stream (the list the parsers pop from)
  pc,            \* position in the code
  form,          \* the parser the dispatcher selected
  result,        \* the returned tree
  raised,        \* the exception that ended the call, None if none
  state_,        \* parse_add_executable_standard: state_
  sortable,      \* parse_add_executable_standard: sortable
  tree,          \* parse_add_executable_standard: children of the root node
  parg_group,    \* parse_add_executable_standard: the name/flags group
  src_group,     \* parse_add_executable_standard: the sources group
  active_depth,  \* parse_add_executable_standard: the node comments go to
  stack          \* parse_install_targets: one frame per active call

vars == <<entry, input, breakstack, tokens, pc, form, result, raised, state_,
          sortable, tree, parg_group, src_group, active_depth, stack>>

ae_locals == <<state_, sortable, tree, parg_group, src_group, active_depth>>

caller == <<entry, input, breakstack>>

NoNode == TreeNode("None", <<>>, FALSE)

\* A child of the root that is one of the two groups, held by reference.
Ref(name) == [kind |-> "REF", ref |-> name]

\* The root node with the two groups in place of their references.
resolve(children, parg, src) ==
  TreeNode("ARGGROUP",
           [i \in DOMAIN children |->
              IF children[i].kind # "REF" THEN children[i]
              ELSE IF children[i].ref = "parg_group" THEN parg ELSE src],
           FALSE)

(***************************************************************************)
(* Token streams the caller may pass                                       *)
(***************************************************************************)
\* Longest tail of core-vocabulary tokens behind the first argument.
MaxCoreLen == 4

Lexeme(type, spelling) == [type |-> type, spelling |-> spelling]

\* The lexer numbers the tokens of a stream.
lex(stream) ==
  [i \in DOMAIN stream |-> Token(stream[i].type, stream[i].spelling, i)]

\* The breakstack of the caller: the command is parsed inside a scope whose
\* keyword is DEPENDS. A stream without DEPENDS is parsed as under a
\* breakstack without keywords.
CALLER_BREAKSTACK == <<KwargBreaker({"DEPENDS"})>>

AE_VOCABULARY ==
  { Lexeme("WHITESPACE", " "), Lexeme("NEWLINE", "\n"),
    Lexeme("COMMENT", "# unsortable"), Lexeme("COMMENT", "# sortable"),
    Lexeme("RIGHT_PAREN", ")"), Lexeme("WORD", "foo"), Lexeme("WORD", "WIN32"),
    Lexeme("WORD", "ALIAS"), Lexeme("WORD", "imported"),
    Lexeme("WORD", "${X}"), Lexeme("WORD", "DEPENDS") }

AE_CORE ==
  { Lexeme("WHITESPACE", " "), Lexeme("NEWLINE", "\n"),
    Lexeme("COMMENT", "# unsortable"), Lexeme("WORD", "foo"),
    Lexeme("WORD", "WIN32"), Lexeme("WORD", "DEPENDS") }

\* 'stream' is a stream add_executable is called on: every stream up to
\* MaxLen, and every "foo <core tokens>".
ae_stream(stream) ==
  \/ \E n \in 0..MaxLen : \E s \in [1..n -> AE_VOCABULARY] : stream = lex(s)
  \/ \E n \in 0..MaxCoreLen : \E c \in [1..n -> AE_CORE] :
       stream = lex(<<Lexeme("WORD", "foo")>> \o c)

AE_ENTRIES == {"parse_add_executable", "parse_add_executable_standard"}

\* The values of the parameter 'sortable' an entry point is called with.
sortable_args(function) ==
  IF function = "parse_add_executable" THEN {TRUE} ELSE BOOLEAN

InitAE ==
  /\ entry \in AE_ENTRIES
  /\ ae_stream(input)
  /\ breakstack = CALLER_BREAKSTACK
  /\ tokens = input
  /\ pc = "call"
  /\ form = None
  /\ result = NoNode
  /\ raised = None
  /\ state_ = parsing_name
  /\ sortable \in sortable_args(entry)
  /\ tree = <<>>
  /\ parg_group = NoNode
  /\ src_group = NoNode
  /\ active_depth = "tree"
  /\ stack = <<>>

(***************************************************************************)
(* parse_add_executable: the dispatcher                                    *)
(***************************************************************************)
\* "return <parser>(tokens, breakstack)": the call ends with the parser.
returns(r) ==
  /\ result' = r.tree
  /\ tokens' = r.tokens
  /\ raised' = r.raised
  /\ pc' = "done"

\* The call ends with an exception.
raises(exception) ==
  /\ raised' = exception
  /\ pc' = "done"
  /\ UNCHANGED <<result, tokens>>

\* Lines 160-165: no second semantic token. The warning reads tokens[0].
AE_DispatchInvalid ==
  /\ pc = "call" /\ entry = "parse_add_executable"
  /\ second_token(tokens) = NoToken
  /\ form' = "fallback"
  /\ IF tokens = <<>> THEN raises("IndexError")
     ELSE \E r \in {parse_fallback(tokens, breakstack)} : returns(r)
  /\ UNCHANGED <<caller, ae_locals, stack>>

\* Lines 167-173: the discriminator names a form.
AE_DispatchForm ==
  /\ pc = "call" /\ entry = "parse_add_executable"
  /\ second_token(tokens) # NoToken
  /\ upper(second_token(tokens).spelling) \in DOMAIN ADD_EXECUTABLE_FORMS
  /\ form' = upper(second_token(tokens).spelling)
  /\ \E r \in {parse_add_executable_form(
                  ADD_EXECUTABLE_FORMS[upper(second_token(tokens).spelling)],
                  tokens, breakstack)} : returns(r)
  /\ UNCHANGED <<caller, ae_locals, stack>>

\* Lines 179-183: the default form.
AE_DispatchStandard ==
  /\ pc = "call" /\ entry = "parse_add_executable"
  /\ second_token(tokens) # NoToken
  /\ upper(second_token(tokens).spelling) \notin DOMAIN ADD_EXECUTABLE_FORMS
  /\ form' = "standard"
  /\ sortable' = dispatch_sortable(second_token(tokens))
  /\ pc' = "ae_standard"
  /\ UNCHANGED <<caller, tokens, result, raised, state_, tree, parg_group,
                 src_group, active_depth, stack>>

(***************************************************************************)
(* parse_add_executable_standard                                           *)
(***************************************************************************)
ae_enter(cur) ==
  /\ tree' = cur.children
  /\ tokens' = cur.tokens

\* Lines 64-75: the root node and the whitespace in front of the first argument.
AE_Begin ==
  /\ \/ pc = "ae_standard"
     \/ pc = "call" /\ entry = "parse_add_executable_standard"
  /\ ae_enter(strip_whitespace(tokens))
  /\ state_' = parsing_name
  /\ parg_group' = NoNode
  /\ src_group' = NoNode
  /\ active_depth' = "tree"
  /\ form' = "standard"
  /\ pc' = "ae_loop"
  /\ UNCHANGED <<caller, result, raised, sortable, stack>>

\* Line 138: return tree.
ae_return ==
  /\ result' = resolve(tree, parg_group, src_group)
  /\ pc' = "done"
  /\ UNCHANGED <<caller, tokens, form, raised, ae_locals, stack>>

\* Line 77: the stream is empty.
AE_Exhausted == pc = "ae_loop" /\ tokens = <<>> /\ ae_return

\* Lines 82-83: the loop breaks on the closing parenthesis and on nothing else.
\* Variant: the loop also stops in front of a line end.
standard_breaks_newline(token, stack_of_caller) ==
  token.type \in {"RIGHT_PAREN", "NEWLINE"}

standard_breaks(token, stack_of_caller) == token.type = "RIGHT_PAREN"

AE_Break ==
  /\ pc = "ae_loop" /\ tokens # <<>>
  /\ standard_breaks(tokens[1], breakstack)
  /\ ae_return

\* children.append on the node active_depth refers to.
append_active(child) ==
  /\ tree' = IF active_depth = "tree" THEN Append(tree, child) ELSE tree
  /\ parg_group' = IF active_depth = "parg_group"
                   THEN [parg_group EXCEPT !.children = Append(@, child)]
                   ELSE parg_group
  /\ src_group' = IF active_depth = "src_group"
                  THEN [src_group EXCEPT !.children = Append(@, child)]
                  ELSE src_group

ae_classify ==
  /\ pc = "ae_loop" /\ tokens # <<>>
  /\ ~standard_breaks(tokens[1], breakstack)

\* Lines 87-89.
AE_Whitespace ==
  /\ ae_classify
  /\ tokens[1].type \in WHITESPACE_TOKENS
  /\ append_active(tokens[1])
  /\ tokens' = Tail(tokens)
  /\ UNCHANGED <<caller, pc, form, result, raised, state_, sortable,
                 active_depth, stack>>

\* Lines 93-103.
AE_Comment ==
  /\ ae_classify
  /\ tokens[1].type \in COMMENT_TOKENS
  /\ sortable' = comment_sortable(state_, sortable, tokens[1])
  /\ append_active(TreeNode("COMMENT", <<tokens[1]>>, FALSE))
  /\ tokens' = Tail(tokens)
  /\ UNCHANGED <<caller, pc, form, result, raised, state_, active_depth, stack>>

ae_semantic == ae_classify /\ tokens[1].type \notin SKIP_TOKENS

\* tokens.pop(0) into a new node, with the comment that trails it.
pop_argument(node_type) ==
  consume_trailing_comment(TreeNode(node_type, <<tokens[1]>>, FALSE), Tail(tokens))

name_group(r) ==
  /\ parg_group' = TreeNode("PARGGROUP", <<r.node>>, FALSE)
  /\ tokens' = r.tokens

\* Lines 105-114.
AE_Name ==
  /\ ae_semantic
  /\ state_ = parsing_name
  /\ name_group(pop_argument("ARGUMENT"))
  /\ active_depth' = "parg_group"
  /\ tree' = Append(tree, Ref("parg_group"))
  /\ state_' = state_ + 1
  /\ UNCHANGED <<caller, pc, form, result, raised, sortable, src_group, stack>>

\* Variant: the flag is neither popped nor attached.
flag_child_stuck(r) ==
  /\ parg_group' = parg_group
  /\ tokens' = tokens

\* Lines 118-122.
flag_child(r) ==
  /\ parg_group' = [parg_group EXCEPT !.children = Append(@, r.node)]
  /\ tokens' = r.tokens

\* Lines 115-122.
AE_Flag ==
  /\ ae_semantic
  /\ state_ = parsing_flags
  /\ get_normalized_kwarg(tokens[1]) \in STANDARD_FLAGS
  /\ flag_child(pop_argument("FLAG"))
  /\ UNCHANGED <<caller, pc, form, result, raised, state_, sortable, tree,
                 src_group, active_depth, stack>>

\* Line 125: the sources group takes the value 'sortable' has at this point.
new_src_group(value) == TreeNode("PARGGROUP", <<>>, value)

\* Lines 123-127.
AE_ToSources ==
  /\ ae_semantic
  /\ state_ = parsing_flags
  /\ get_normalized_kwarg(tokens[1]) \notin STANDARD_FLAGS
  /\ state_' = state_ + 1
  /\ src_group' = new_src_group(sortable)
  /\ active_depth' = "src_group"
  /\ tree' = Append(tree, Ref("src_group"))
  /\ UNCHANGED <<caller, tokens, pc, form, result, raised, sortable,
                 parg_group, stack>>

\* Lines 135-136: comments behind the last source go to the root.
depth_after_source(depth, rest, stack_of_caller) ==
  IF only_comments_and_whitespace_remain(rest, stack_of_caller)
  THEN "tree" ELSE depth

\* Variant: a flag spelling among the sources becomes a FLAG node.
source_node_type_flags(token) ==
  IF get_normalized_kwarg(token) \in STANDARD_FLAGS THEN "FLAG" ELSE "ARGUMENT"

\* Line 130: every token met in the sources state becomes an ARGUMENT.
source_node_type(token) == "ARGUMENT"

source_child(r) ==
  /\ src_group' = [src_group EXCEPT !.children = Append(@, r.node)]
  /\ tokens' = r.tokens
  /\ active_depth' = depth_after_source(active_depth, r.tokens, breakstack)

\* Lines 128-136.
AE_Source ==
  /\ ae_semantic
  /\ state_ = parsing_sources
  /\ source_child(pop_argument(source_node_type(tokens[1])))
  /\ UNCHANGED <<caller, pc, form, result, raised, state_, sortable, tree,
                 parg_group, stack>>

NextAE ==
  \/ AE_DispatchInvalid
  \/ AE_DispatchForm
  \/ AE_DispatchStandard
  \/ AE_Begin
  \/ AE_Exhausted
  \/ AE_Break
  \/ AE_Whitespace
  \/ AE_Comment
  \/ AE_Name
  \/ AE_Flag
  \/ AE_ToSources
  \/ AE_Source

SpecAE == InitAE /\ [][NextAE]_vars

(***************************************************************************)
(* Token streams for install                                               *)
(***************************************************************************)
IT_VOCABULARY ==
  { Lexeme("WHITESPACE", " "), Lexeme("COMMENT", "# sortable"),
    Lexeme("RIGHT_PAREN", ")"), Lexeme("WORD", "lib"), Lexeme("WORD", "targets"),
    Lexeme("WORD", "FILES"), Lexeme("WORD", "ARCHIVE"),
    Lexeme("WORD", "DESTINATION"), Lexeme("WORD", "PERMISSIONS"),
    Lexeme("WORD", "OPTIONAL"), Lexeme("WORD", "INCLUDES"),
    Lexeme("WORD", "DEPENDS") }

IT_CORE ==
  { Lexeme("WORD", "ARCHIVE"), Lexeme("WORD", "LIBRARY"),
    Lexeme("WORD", "DESTINATION"), Lexeme("WORD", "lib") }

\* Longest tail of core-vocabulary tokens behind TARGETS.
MaxTargetsLen == 6

\* Longest tail of tokens behind the discriminator of a form.
MaxFormLen == 2

\* Discriminators of the forms of install other than TARGETS and FILES.
IT_FORMS ==
  { Lexeme("WORD", "PROGRAMS"), Lexeme("WORD", "DIRECTORY"),
    Lexeme("WORD", "SCRIPT"), Lexeme("WORD", "CODE"), Lexeme("WORD", "EXPORT"),
    Lexeme("WORD", "export") }

\* 'stream' is a stream install is called on: every stream up to MaxLen,
\* every "TARGETS <core tokens>" and every "<discriminator> <tokens>".
it_stream(stream) ==
  \/ \E n \in 0..MaxLen : \E s \in [1..n -> IT_VOCABULARY] : stream = lex(s)
  \/ \E n \in 0..MaxTargetsLen : \E c \in [1..n -> IT_CORE] :
       stream = lex(<<Lexeme("WORD", "TARGETS")>> \o c)
  \/ \E w \in IT_FORMS : \E n \in 0..MaxFormLen :
       \E s \in [1..n -> IT_VOCABULARY] : stream = lex(<<w>> \o s)

IT_ENTRIES ==
  {"parse_install", "parse_install_targets", "parse_install_targets_sub"}

InitIT ==
  /\ entry \in IT_ENTRIES
  /\ it_stream(input)
  /\ breakstack = CALLER_BREAKSTACK
  /\ tokens = input
  /\ pc = "call"
  /\ form = None
  /\ result = NoNode
  /\ raised = None
  /\ state_ = parsing_name
  /\ sortable = TRUE
  /\ tree = <<>>
  /\ parg_group = NoNode
  /\ src_group = NoNode
  /\ active_depth = "tree"
  /\ stack = <<>>

(***************************************************************************)
(* parse_install: the dispatcher                                           *)
(***************************************************************************)
\* Lines 300-304: no semantic token. The warning reads tokens[0].
IT_DispatchInvalid ==
  /\ pc = "call" /\ entry = "parse_install"
  /\ get_first_semantic_token(tokens) = NoToken
  /\ form' = "fallback"
  /\ IF tokens = <<>> THEN raises("IndexError")
     ELSE \E r \in {parse_fallback(tokens, breakstack)} : returns(r)
  /\ UNCHANGED <<caller, ae_locals, stack>>

install_form(token) ==
  IF token # NoToken /\ upper(token.spelling) \in DOMAIN INSTALL_PARSEMAP
  THEN INSTALL_PARSEMAP[upper(token.spelling)]
  ELSE None

\* Lines 316-320: the discriminator names no form. The warning calls
\* tokens[0].location().
IT_DispatchUnknown ==
  /\ pc = "call" /\ entry = "parse_install"
  /\ get_first_semantic_token(tokens) # NoToken
  /\ install_form(get_first_semantic_token(tokens)) = None
  /\ form' = "fallback"
  /\ IF ~location_is_callable THEN raises("TypeError")
     ELSE \E r \in {parse_fallback(tokens, breakstack)} : returns(r)
  /\ UNCHANGED <<caller, ae_locals, stack>>

\* Line 322: a form built on parse_standard.
IT_DispatchForm ==
  /\ pc = "call" /\ entry = "parse_install"
  /\ install_form(get_first_semantic_token(tokens))
       \notin {None, "parse_install_targets"}
  /\ form' = install_form(get_first_semantic_token(tokens))
  /\ \E r \in {parse_install_form(install_form(get_first_semantic_token(tokens)),
                                    tokens, breakstack)} : returns(r)
  /\ UNCHANGED <<caller, ae_locals, stack>>

\* Lines 28-44: parse_install_targets_sub is one call of parse_standard.
IT_TargetsSub ==
  /\ pc = "call" /\ entry = "parse_install_targets_sub"
  /\ form' = "parse_install_targets_sub"
  /\ \E r \in {parse_install_targets_sub(tokens, breakstack)} : returns(r)
  /\ UNCHANGED <<caller, ae_locals, stack>>

\* Line 322: the TARGETS form.
IT_DispatchTargets ==
  /\ pc = "call" /\ entry = "parse_install"
  /\ install_form(get_first_semantic_token(tokens)) = "parse_install_targets"
  /\ form' = "parse_install_targets"
  /\ pc' = "it_targets"
  /\ UNCHANGED <<caller, tokens, result, raised, ae_locals, stack>>

(***************************************************************************)
(* parse_install_targets                                                   *)
(***************************************************************************)
top == stack[Len(stack)]

\* The stack with its top frame replaced.
with_top(frame) == [stack EXCEPT ![Len(stack)] = frame]

\* Lines 93-99 of a new activation: the root node and the leading whitespace.
it_enter(cur, stack_of_callee, frames) ==
  /\ stack' = Append(frames, Frame(cur.children, stack_of_callee))
  /\ tokens' = cur.tokens

IT_Begin ==
  /\ \/ pc = "it_targets"
     \/ pc = "call" /\ entry = "parse_install_targets"
  /\ it_enter(strip_whitespace(tokens), breakstack, <<>>)
  /\ form' = "parse_install_targets"
  /\ pc' = "it_loop"
  /\ UNCHANGED <<caller, result, raised, ae_locals>>

\* Lines 151-152 in the activation 'frame', with 'sub' the subtree parsed.
it_attach(frame, frames, sub) ==
  IF Len(sub.tokens) < frame.ntokens
  THEN /\ stack' = Append(frames, [frame EXCEPT !.children = Append(@, sub.tree),
                                                !.kwarg = <<>>])
       /\ tokens' = sub.tokens
       /\ UNCHANGED <<caller, pc, form, result, raised, ae_locals>>
  ELSE /\ raised' = "AssertionError"
       /\ pc' = "done"
       /\ UNCHANGED <<caller, tokens, form, result, stack, ae_locals>>

\* Line 153: return tree. The outermost activation returns to the caller; an
\* inner one returns into parse_kwarg (called at line 144), which attaches the
\* sub-group's tree, and lines 151-152 of the calling activation follow.
it_return(sub) ==
  IF Len(stack) = 1
  THEN /\ result' = sub.tree
       /\ stack' = <<>>
       /\ pc' = "done"
       /\ UNCHANGED <<caller, tokens, form, raised, ae_locals>>
  ELSE it_attach(stack[Len(stack) - 1], SubSeq(stack, 1, Len(stack) - 2),
                 parse_kwarg_close(stack[Len(stack) - 1].kwarg,
                                   stack[Len(stack) - 1].kwarg_ntokens, sub))

\* Line 117: the stream is empty.
IT_Exhausted ==
  /\ pc = "it_loop" /\ tokens = <<>>
  /\ it_return(Parsed("ARGGROUP", Cursor(tokens, top.children)))

\* Lines 121-122.
targets_breaks(token, stack_of_activation) ==
  should_break(token, stack_of_activation)

IT_Break ==
  /\ pc = "it_loop" /\ tokens # <<>>
  /\ targets_breaks(tokens[1], top.breakstack)
  /\ it_return(Parsed("ARGGROUP", Cursor(tokens, top.children)))

it_classify ==
  /\ pc = "it_loop" /\ tokens # <<>>
  /\ ~targets_breaks(tokens[1], top.breakstack)

\* Lines 126-128.
IT_Whitespace ==
  /\ it_classify
  /\ tokens[1].type \in WHITESPACE_TOKENS
  /\ stack' = with_top([top EXCEPT !.children = Append(@, tokens[1])])
  /\ tokens' = Tail(tokens)
  /\ UNCHANGED <<caller, pc, form, result, raised, ae_locals>>

\* Lines 131-136.
IT_Comment ==
  /\ it_classify
  /\ tokens[1].type \in COMMENT_TOKENS
  /\ stack' = with_top([top EXCEPT !.children =
                          Append(@, TreeNode("COMMENT", <<tokens[1]>>, FALSE))])
  /\ tokens' = Tail(tokens)
  /\ UNCHANGED <<caller, pc, form, result, raised, ae_locals>>

it_semantic == it_classify /\ tokens[1].type \notin SKIP_TOKENS

\* Lines 143-149: which branch parses the token.
targets_branch(word) ==
  IF word \in designated_kwargs THEN "subgroup"
  ELSE IF word \in DOMAIN INSTALL_TARGETS_KWARGS THEN "kwarg"
  ELSE "positional"

\* parse_kwarg (line 144) up to its call of parse_install_targets.
it_call(open) ==
  it_enter(strip_whitespace(open.tokens), subtree_breakstack(top.breakstack),
           with_top([top EXCEPT !.kwarg = open.children,
                                !.ntokens = Len(tokens),
                                !.kwarg_ntokens = Len(open.tokens)]))

\* Lines 143-145: a sub-group; parse_kwarg calls parse_install_targets.
IT_Subgroup ==
  /\ it_semantic
  /\ targets_branch(get_normalized_kwarg(tokens[1])) = "subgroup"
  /\ it_call(parse_kwarg_open(tokens))
  /\ UNCHANGED <<caller, pc, form, result, raised, ae_locals>>

\* Lines 146-147: a keyword of the outer table.
IT_Kwarg ==
  /\ it_semantic
  /\ targets_branch(get_normalized_kwarg(tokens[1])) = "kwarg"
  /\ \E sub \in {parse_kwarg(tokens, get_normalized_kwarg(tokens[1]),
                              INSTALL_TARGETS_KWARGS[get_normalized_kwarg(tokens[1])],
                              kwarg_breakstack(top.breakstack))} :
       it_attach([top EXCEPT !.ntokens = Len(tokens)],
                 SubSeq(stack, 1, Len(stack) - 1), sub)

\* Lines 148-149: bare positionals.
IT_Positional ==
  /\ it_semantic
  /\ targets_branch(get_normalized_kwarg(tokens[1])) = "positional"
  /\ \E sub \in {parse_positionals(tokens, OneOrMore, INSTALL_TARGETS_FLAGS,
                                    positional_breakstack(top.breakstack))} :
       it_attach([top EXCEPT !.ntokens = Len(tokens)],
                 SubSeq(stack, 1, Len(stack) - 1), sub)

NextIT ==
  \/ IT_DispatchInvalid
  \/ IT_DispatchUnknown
  \/ IT_DispatchForm
  \/ IT_DispatchTargets
  \/ IT_TargetsSub
  \/ IT_Begin
  \/ IT_Exhausted
  \/ IT_Break
  \/ IT_Whitespace
  \/ IT_Comment
  \/ IT_Subgroup
  \/ IT_Kwarg
  \/ IT_Positional

SpecIT == InitIT /\ [][NextIT]_vars

(***************************************************************************)
(* Both commands                                                           *)
(***************************************************************************)
Init == InitAE \/ InitIT

Next == NextAE \/ NextIT

Spec == Init /\ [][Next]_vars

\* The interpreter runs a call to its end: a step that can be taken is taken.
SpecLive == Spec /\ WF_vars(Next)

(***************************************************************************)
(* Properties                                                              *)
(***************************************************************************)
\* The call returned a tree built by the parser 'parser'.
returned(parser) == pc = "done" /\ raised = None /\ form = parser

children_of(x) == {x.children[i] : i \in DOMAIN x.children}

\* The positional groups directly under a root, in order.
parg_groups(root) == SelectSeq(root.children, LAMBDA c : c.kind = "PARGGROUP")

\* The token an ARGUMENT, FLAG, KEYWORD or COMMENT node was built from.
token_of(node) == node.children[1]

\* The token a keyword group starts with.
keyword_of(group) == token_of(group.children[1])

UNSORT_TAGS == {"unsort", "unsortable"}

\* The default form returned a tree with a sources group.
has_sources == returned("standard") /\ Len(parg_groups(result)) >= 2

name_token == token_of(parg_groups(result)[1].children[1])

sources == parg_groups(result)[2]

first_source == token_of(sources.children[1])

\* Number of tokens the call consumed.
nconsumed == Len(input) - Len(tokens)

\* C1 (as claimed): when parse_add_executable_standard returns, the tokens of
\* the tree in depth-first child order followed by the tokens left in the
\* stream are the input stream, same tokens in the same order.
C1_LosslessStandard ==
  returned("standard") => flatten(result) \o tokens = input

\* C2 (as claimed): every iteration of the main loop of
\* parse_add_executable_standard, the one leaving the flags state included,
\* leaves strictly fewer tokens. The iteration of lines 123-127 leaves the
\* stream as it is.
C2_EveryIterationConsumes ==
  [][(pc = "ae_loop" /\ pc' = "ae_loop") => Len(tokens') < Len(tokens)]_vars

\* C3 (as claimed): a token that a breaker of the caller's breakstack matches
\* is never consumed into the tree parse_add_executable_standard returns.
C3_BreakstackHonoured ==
  returned("standard") =>
    \A i \in 1..Len(flatten(result)) :
      ~should_break(flatten(result)[i], breakstack)

SHARED_KWARGS ==
  {"DESTINATION", "PERMISSIONS", "CONFIGURATIONS", "COMPONENT",
   "NAMELINK_COMPONENT"}

\* The sub-group nodes directly under the root of an install(TARGETS) tree.
subgroups(root) ==
  {c \in children_of(root) :
     /\ c.kind = "KWARGGROUP"
     /\ get_normalized_kwarg(keyword_of(c)) \in designated_kwargs}

\* The keyword groups inside a sub-group node.
inner_groups(subgroup) ==
  UNION {{g \in children_of(a) : g.kind = "KWARGGROUP"} :
           a \in {c \in children_of(subgroup) : c.kind = "ARGGROUP"}}

\* The sub-group name or INCLUDES nearest in front of token j (0 if none).
owner(j) ==
  LET before == {i \in 1..(j - 1) :
                   get_normalized_kwarg(input[i])
                     \in designated_kwargs \cup {"INCLUDES"}}
  IN IF before = {} THEN 0
     ELSE CHOOSE i \in before : \A k \in before : k <= i

consumed(j) == j <= nconsumed

plain_word(token) ==
  /\ token.type = "WORD"
  /\ get_normalized_kwarg(token)
       \notin DOMAIN INSTALL_TARGETS_KWARGS \cup designated_kwargs
                \cup INSTALL_TARGETS_FLAGS \cup CALLER_BREAKSTACK[1].kwargs

\* C4: in install(TARGETS ...), a consumed shared keyword whose nearest
\* preceding sub-group name or INCLUDES is a sub-group name is the keyword of
\* a keyword group inside that very sub-group (not under the root, not in
\* another sub-group), and a plain word right behind it is in its payload.
C4_SharedKeywordInsideSubgroup ==
  returned("parse_install_targets") =>
    \A j \in 1..nconsumed :
      ( /\ get_normalized_kwarg(input[j]) \in SHARED_KWARGS
        /\ owner(j) # 0
        /\ get_normalized_kwarg(input[owner(j)]) \in designated_kwargs )
      => /\ \E s \in subgroups(result) :
              /\ keyword_of(s) = input[owner(j)]
              /\ \E g \in inner_groups(s) :
                   /\ keyword_of(g) = input[j]
                   /\ ( /\ consumed(j + 1) /\ plain_word(input[j + 1]) )
                      => \E k \in 1..Len(flatten(g)) :
                           flatten(g)[k] = input[j + 1]
         /\ \A c \in children_of(result) :
              c.kind = "KWARGGROUP" => keyword_of(c) # input[j]
         /\ \A s \in subgroups(result) :
              keyword_of(s) # input[owner(j)] =>
                \A g \in inner_groups(s) : keyword_of(g) # input[j]

spellings(stream) == [i \in DOMAIN stream |-> stream[i].spelling]

\* install(TARGETS ARCHIVE DESTINATION lib LIBRARY DESTINATION lib) returned:
\* two sub-groups, each holding one DESTINATION group with its own payload.
C4_Witness ==
  /\ returned("parse_install_targets")
  /\ spellings(input) = <<"TARGETS", "ARCHIVE", "DESTINATION", "lib",
                          "LIBRARY", "DESTINATION", "lib">>
  /\ tokens = <<>>
  /\ Cardinality(subgroups(result)) = 2
  /\ \A s \in subgroups(result) :
       /\ Cardinality(inner_groups(s)) = 1
       /\ \A g \in inner_groups(s) :
            /\ get_normalized_kwarg(keyword_of(g)) = "DESTINATION"
            /\ Len(flatten(g)) = 2

\* C5 (as claimed): an unsort/unsortable comment between the name and the
\* first source makes the sources group not sortable.
C5_TagBeforeSourcesUnsorts ==
  has_sources =>
    ( (\E i \in 1..Len(input) :
         /\ name_token.loc < i /\ i < first_source.loc
         /\ get_tag(input[i]) \in UNSORT_TAGS)
      => ~sources.sortable )

\* C6 (as claimed): the dispatchers never raise.
C6_DispatchersNeverRaise ==
  entry \in {"parse_add_executable", "parse_install"} => raised = None

\* The ARGUMENT and FLAG nodes of a positional group, in order.
arguments(group) ==
  SelectSeq(group.children, LAMBDA c : c.kind \in {"ARGUMENT", "FLAG"})

kinds(nodes) == [i \in DOMAIN nodes |-> nodes[i].kind]

is_alias(token) == get_normalized_kwarg(token) = "ALIAS"

\* C7 (as claimed): the tree of the alias form holds no FLAG node and no
\* keyword group.
C7_AliasNoFlag ==
  returned("ALIAS") =>
    \A n \in nodes_of(result) : n.kind \notin {"FLAG", "KWARGGROUP"}

\* C7 (amended): the tree of the alias form holds no keyword group; a
\* consumed word spelled ALIAS is a FLAG node and every other consumed
\* semantic token an ARGUMENT; no positional group holds more than three of
\* them; and when the name, ALIAS and the target are consumed they are the
\* ARGUMENT, FLAG, ARGUMENT of the first positional group.
C7_AliasShape ==
  returned("ALIAS") =>
    /\ \A n \in nodes_of(result) :
         /\ n.kind # "KWARGGROUP"
         /\ n.kind = "FLAG" => is_alias(token_of(n))
         /\ n.kind = "ARGUMENT" => ~is_alias(token_of(n))
         /\ n.kind = "PARGGROUP" => Len(arguments(n)) <= 3
    /\ LET sem == iter_semantic_tokens(take(input, nconsumed))
       IN (Len(sem) >= 3 /\ ~is_alias(sem[1]) /\ ~is_alias(sem[3])) =>
            /\ kinds(arguments(parg_groups(result)[1]))
                 = <<"ARGUMENT", "FLAG", "ARGUMENT">>
            /\ [i \in 1..3 |-> token_of(arguments(parg_groups(result)[1])[i])]
                 = take(sem, 3)

\* add_executable(foo ALIAS foo) returned.
C7_Witness ==
  /\ returned("ALIAS")
  /\ spellings(input) = <<"foo", "ALIAS", "foo">>
  /\ tokens = <<>>
  /\ Len(parg_groups(result)) = 1

\* An unsort/unsortable comment occurs in the stream.
tag_seen == \E i \in 1..Len(input) : get_tag(input[i]) \in UNSORT_TAGS

\* C8: through the dispatcher, a discriminator holding "${" selects the
\* default form and every sources group is then not sortable; a discriminator
\* without it that names no form, in a stream without unsort/unsortable
\* comment, gives a sortable sources group.
C8_DereferenceDisablesSorting ==
  (pc = "done" /\ entry = "parse_add_executable"
     /\ second_token(input) # NoToken) =>
    /\ has_deref(second_token(input).spelling) =>
         /\ returned("standard")
         /\ \A k \in 2..Len(parg_groups(result)) :
              ~parg_groups(result)[k].sortable
    /\ ( /\ ~has_deref(second_token(input).spelling)
         /\ upper(second_token(input).spelling) \notin DOMAIN ADD_EXECUTABLE_FORMS
         /\ ~tag_seen ) =>
         /\ returned("standard")
         /\ \A k \in 2..Len(parg_groups(result)) :
              parg_groups(result)[k].sortable

\* add_executable(foo ${X} ...) returned a tree with a sources group.
C8_Witness ==
  /\ entry = "parse_add_executable"
  /\ has_sources
  /\ has_deref(second_token(input).spelling)
  /\ ~sources.sortable

\* C9: during a call of parse_add_executable_standard, 'sortable' never goes
\* from false to true, whatever the comments; a sources group created while
\* it is false is not sortable and the group's value never changes.
C9_SortableMonotone ==
  [][pc = "ae_loop" =>
       /\ ~sortable => ~sortable'
       /\ (~sortable /\ src_group = NoNode /\ src_group' # NoNode)
            => ~src_group'.sortable
       /\ src_group # NoNode => src_group'.sortable = src_group.sortable]_vars

\* A sort/sortable comment was inspected behind the name while 'sortable' was
\* false.
C9_Witness ==
  /\ pc = "ae_loop" /\ ~sortable
  /\ state_ = parsing_flags
  /\ \E c \in children_of(parg_group) :
       c.kind = "COMMENT" /\ get_tag(token_of(c)) \in {"sort", "sortable"}

\* The comments the main loop met on their own (not trailing an argument).
inspected_comments ==
  {c \in children_of(result) \cup
          UNION {children_of(parg_groups(result)[k]) :
                   k \in 1..Len(parg_groups(result))} :
     c.kind = "COMMENT"}

\* C10 (as claimed): an unsort/unsortable comment the main loop meets behind
\* the name, in the flags state or behind one or more sources, makes the
\* sources group of the returned tree not sortable.
C10_TagBehindNameUnsorts ==
  has_sources =>
    ( (\E c \in inspected_comments :
         /\ name_token.loc < token_of(c).loc
         /\ get_tag(token_of(c)) \in UNSORT_TAGS)
      => ~sources.sortable )

\* C11: when parse_add_executable_standard or parse_install_targets returns,
\* the stream is empty or starts with a token the caller's breakstack (the
\* closing parenthesis included) breaks on.
C11_Exhaustion ==
  (returned("standard") \/ returned("parse_install_targets")) =>
    (tokens = <<>> \/ should_break(tokens[1], breakstack))

\* install(TARGETS ...) returned in front of the caller's keyword, having
\* consumed tokens.
C11_Witness ==
  /\ returned("parse_install_targets")
  /\ nconsumed > 0
  /\ tokens # <<>> /\ get_normalized_kwarg(tokens[1]) = "DEPENDS"

\* The semantic tokens of the stream the caller passed.
semantic_input == SelectSeq(input, LAMBDA t : t.type \notin SKIP_TOKENS)

\* The form the spelling of a discriminator names, compared without case.
named_form(spelling) ==
  IF spelling \in {"ALIAS", "alias"} THEN "ALIAS"
  ELSE IF spelling \in {"IMPORTED", "imported"} THEN "IMPORTED"
  ELSE "standard"

\* C12: the form add_executable selects is a function of the second semantic
\* token alone: none selects the fallback, ALIAS the alias parser, IMPORTED
\* (in any case) the import parser, any other the default parser; the tree of
\* the import parser has at most one positional group, which holds the name
\* and the flags.
C12_FormBySecondToken ==
  (pc = "done" /\ entry = "parse_add_executable") =>
    /\ form = IF Len(semantic_input) < 2 THEN "fallback"
              ELSE named_form(semantic_input[2].spelling)
    /\ returned("IMPORTED") =>
         /\ Len(parg_groups(result)) <= 1
         /\ \A n \in nodes_of(result) :
              /\ n.kind # "KWARGGROUP"
              /\ n.kind = "FLAG" =>
                   get_normalized_kwarg(token_of(n)) \in {"IMPORTED", "GLOBAL"}
              /\ n.kind = "ARGUMENT" =>
                   get_normalized_kwarg(token_of(n)) \notin {"IMPORTED", "GLOBAL"}
         /\ \A c \in children_of(result) : c.kind \in {"PARGGROUP", "COMMENT"}
                                            \/ IsToken(c)

\* add_executable(foo imported ALIAS) returned the tree of the import parser.
C12_Witness ==
  /\ returned("IMPORTED")
  /\ spellings(input) = <<"foo", "imported", "ALIAS">>
  /\ tokens = <<>>
  /\ kinds(arguments(parg_groups(result)[1])) = <<"ARGUMENT", "FLAG", "ARGUMENT">>

\* The parser the spelling of a discriminator of install names, compared
\* without case; None if it names no form.
named_install_form(spelling) ==
  CASE spelling \in {"TARGETS", "targets"} -> "parse_install_targets"
    [] spelling \in {"FILES", "PROGRAMS"} -> "parse_install_files"
    [] spelling = "DIRECTORY" -> "parse_install_directory"
    [] spelling \in {"SCRIPT", "CODE"} -> "parse_install_script"
    [] spelling \in {"EXPORT", "export"} -> "parse_install_export"
    [] OTHER -> None

\* C13: the form install selects is a function of the first semantic token
\* alone, compared without case: TARGETS the targets parser, FILES and
\* PROGRAMS the files parser, DIRECTORY the directory parser, SCRIPT and CODE
\* the script parser, EXPORT the export parser; in the returned tree the
\* discriminator is the keyword of a keyword group under the root.
C13_FormByFirstToken ==
  ( /\ pc = "done" /\ entry = "parse_install"
    /\ semantic_input # <<>>
    /\ named_install_form(semantic_input[1].spelling) # None ) =>
    /\ form = named_install_form(semantic_input[1].spelling)
    /\ raised = None =>
         \E c \in children_of(result) :
           c.kind = "KWARGGROUP" /\ keyword_of(c) = semantic_input[1]

\* install(export FILES lib) returned the tree of the export parser.
C13_Witness ==
  /\ entry = "parse_install"
  /\ returned("parse_install_export")
  /\ spellings(input) = <<"export", "FILES", "lib">>
  /\ tokens = <<>>

\* C14: the assertion of line 151 never fails, and every iteration of the
\* loop of parse_install_targets that reaches the classification step, at the
\* outer level or inside a sub-group, leaves strictly fewer tokens.
C14_ClassificationConsumes ==
  [][/\ raised' # "AssertionError"
     /\ it_semantic => Len(tokens') < Len(tokens)]_vars

\* install(TARGETS ...) returned a tree with a sub-group, an outer keyword
\* group and a bare positional group: all three branches have consumed.
C14_Witness ==
  /\ returned("parse_install_targets")
  /\ tokens = <<>>
  /\ subgroups(result) # {}
  /\ \E c \in children_of(result) : c.kind = "PARGGROUP"
  /\ \E c \in children_of(result) :
       /\ c.kind = "KWARGGROUP"
       /\ get_normalized_kwarg(keyword_of(c)) \in SHARED_KWARGS
  /\ \E s \in subgroups(result) : inner_groups(s) # {}

\* The semantic tokens the call consumed, in stream order.
consumed_semantic == iter_semantic_tokens(take(input, nconsumed))

tokens_of(nodes) == [i \in DOMAIN nodes |-> token_of(nodes[i])]

\* The arguments and flags of all positional groups under a root, in order.
RECURSIVE all_arguments(_)
all_arguments(groups) ==
  IF groups = <<>> THEN <<>>
  ELSE arguments(groups[1]) \o all_arguments(Tail(groups))

\* The tree of the default form: at most two positional groups that hold the
\* consumed semantic tokens in order; the first is one ARGUMENT, the first
\* semantic token, followed by FLAG nodes of declared flags; the second
\* starts at the first token that is no declared flag and holds ARGUMENT
\* nodes only, at least one.
standard_shape ==
  /\ Len(parg_groups(result)) <= 2
  /\ \A c \in children_of(result) :
       IsToken(c) \/ c.kind \in {"PARGGROUP", "COMMENT"}
  /\ tokens_of(all_arguments(parg_groups(result))) = consumed_semantic
  /\ Len(parg_groups(result)) >= 1 =>
       /\ kinds(arguments(parg_groups(result)[1]))
            = [i \in 1..Len(arguments(parg_groups(result)[1])) |->
                 IF i = 1 THEN "ARGUMENT" ELSE "FLAG"]
       /\ \A i \in 2..Len(arguments(parg_groups(result)[1])) :
            get_normalized_kwarg(token_of(arguments(parg_groups(result)[1])[i]))
              \in STANDARD_FLAGS
  /\ Len(parg_groups(result)) = 2 =>
       /\ arguments(sources) # <<>>
       /\ \A i \in 1..Len(arguments(sources)) :
            arguments(sources)[i].kind = "ARGUMENT"
       /\ get_normalized_kwarg(first_source) \notin STANDARD_FLAGS

\* C15: in parse_add_executable_standard the state only moves name ->
\* flags -> sources, the sources group is created once, on leaving the flags
\* state, and the returned tree has the shape of the default form.
C15_DefaultFormShape ==
  /\ [][pc = "ae_loop" =>
          /\ state_' \in {state_, state_ + 1}
          /\ state_' <= parsing_sources
          /\ (src_group = NoNode /\ src_group' # NoNode)
               => (state_ = parsing_flags /\ state_' = parsing_sources)
          /\ src_group # NoNode => src_group' # NoNode]_vars
  /\ [](returned("standard") => standard_shape)

\* add_executable(foo WIN32 foo WIN32) returned: the second WIN32 is an
\* ARGUMENT of the sources group.
C15_Witness ==
  /\ returned("standard")
  /\ spellings(input) = <<"foo", "WIN32", "foo", "WIN32">>
  /\ tokens = <<>>
  /\ kinds(arguments(parg_groups(result)[1])) = <<"ARGUMENT", "FLAG">>
  /\ kinds(arguments(sources)) = <<"ARGUMENT", "ARGUMENT">>

\* The outer keywords and the sub-group names of install(TARGETS).
OUTER_KWARGS == DOMAIN INSTALL_TARGETS_KWARGS \cup designated_kwargs

last_token(node) == flatten(node)[Len(flatten(node))]

\* The group ends at the end of the stream or in front of a token that is one
\* of 'words' or that the caller's breakstack breaks on.
ends_in_front_of(group, words) ==
  \/ last_token(group).loc = Len(input)
  \/ get_normalized_kwarg(input[last_token(group).loc + 1]) \in words
  \/ should_break(input[last_token(group).loc + 1], breakstack)

\* C16: at the outer level of parse_install_targets the payload of an outer
\* keyword holds no outer keyword, sub-group name or flag, and that of a
\* keyword of one or more arguments ends only in front of one; a bare
\* positional group holds no outer keyword or sub-group name, ends only in
\* front of one, and holds the flags it meets as FLAG nodes.
C16_OuterBreakstacks ==
  returned("parse_install_targets") =>
    \A c \in children_of(result) :
      /\ ( /\ ~IsToken(c) /\ c.kind = "KWARGGROUP"
           /\ get_normalized_kwarg(keyword_of(c)) \notin designated_kwargs ) =>
           /\ \A k \in 2..Len(flatten(c)) :
                get_normalized_kwarg(flatten(c)[k])
                  \notin OUTER_KWARGS \cup INSTALL_TARGETS_FLAGS
           /\ INSTALL_TARGETS_KWARGS[get_normalized_kwarg(keyword_of(c))].npargs
                = OneOrMore
                => ends_in_front_of(c, OUTER_KWARGS \cup INSTALL_TARGETS_FLAGS)
      /\ (~IsToken(c) /\ c.kind = "PARGGROUP") =>
           /\ \A k \in 1..Len(flatten(c)) :
                get_normalized_kwarg(flatten(c)[k]) \notin OUTER_KWARGS
           /\ ends_in_front_of(c, OUTER_KWARGS)
           /\ \A n \in children_of(c) :
                (~IsToken(n) /\ n.kind \in {"ARGUMENT", "FLAG"}) =>
                  (n.kind = "FLAG" <=>
                     get_normalized_kwarg(token_of(n)) \in INSTALL_TARGETS_FLAGS)

\* parse_install_targets(PERMISSIONS lib OPTIONAL) returned: the payload of
\* PERMISSIONS is lib, and OPTIONAL is the FLAG of a bare positional group.
C16_Witness ==
  /\ returned("parse_install_targets")
  /\ spellings(input) = <<"PERMISSIONS", "lib", "OPTIONAL">>
  /\ tokens = <<>>
  /\ \E c \in children_of(result) :
       c.kind = "KWARGGROUP" /\ spellings(flatten(c)) = <<"PERMISSIONS", "lib">>
  /\ \E c \in children_of(result) :
       c.kind = "PARGGROUP" /\ kinds(arguments(c)) = <<"FLAG">>

\* C17: parse_install_targets is never more than two activations deep; in
\* the activation of a sub-group a sub-group name or INCLUDES ends the loop,
\* so the sub-group branch is taken at the outer level only, and every
\* sub-group node of the returned tree is a child of its root.
C17_SubgroupsNeverNest ==
  /\ Len(stack) <= 2
  /\ ( /\ pc = "it_loop" /\ Len(stack) = 2 /\ tokens # <<>>
       /\ get_normalized_kwarg(tokens[1]) \in designated_kwargs \cup {"INCLUDES"} )
       => targets_breaks(tokens[1], top.breakstack)
  /\ ( /\ it_semantic
       /\ targets_branch(get_normalized_kwarg(tokens[1])) = "subgroup" )
       => Len(stack) = 1
  /\ returned("parse_install_targets") =>
       \A n \in nodes_of(result) :
         ( /\ n.kind = "KWARGGROUP"
           /\ get_normalized_kwarg(keyword_of(n)) \in designated_kwargs )
         => n \in children_of(result)

\* The activation of a sub-group stands in front of the next sub-group name.
C17_Witness ==
  /\ pc = "it_loop" /\ Len(stack) = 2 /\ tokens # <<>>
  /\ get_normalized_kwarg(tokens[1]) \in designated_kwargs
  /\ top.children # <<>>

\* The loop of parse_add_executable_standard has just left the flags state.
at_first_source ==
  pc = "ae_loop" /\ state_ = parsing_sources /\ src_group.children = <<>>

\* C18: every call ends; in parse_add_executable_standard an iteration that
\* leaves the stream as it is is the one from the flags state to the sources
\* state, which a call takes at most once, and the iteration behind it
\* consumes the token in front.
C18_Termination ==
  /\ <>(pc = "done")
  /\ [][(pc = "ae_loop" /\ pc' = "ae_loop" /\ Len(tokens') >= Len(tokens)) =>
          /\ state_ = parsing_flags /\ state_' = parsing_sources
          /\ src_group = NoNode]_vars
  /\ [][pc = "ae_loop" => state_' >= state_]_vars
  /\ [][at_first_source =>
          /\ Len(tokens') < Len(tokens)
          /\ src_group'.children # <<>>]_vars

\* add_executable(foo WIN32 foo foo) returned: the call went through the
\* transition and consumed both sources behind it.
C18_Witness ==
  /\ returned("standard")
  /\ spellings(input) = <<"foo", "WIN32", "foo", "foo">>
  /\ tokens = <<>>
  /\ Len(arguments(sources)) = 2

====
